---- MODULE Spec2Model ----
(***************************************************************************)
(* fasthash: the uniform hashing layer (FastHash / FastHasher / HasherExt  *)
(* / BufHasher / StreamHasher), the Seed generator and RandomState.        *)
(*                                                                         *)
(* Integers are scaled: a u32 has B32 bits, a u64 twice and a u128 four    *)
(* times as many, so that `as u32`, low64() and high64() keep their        *)
(* meaning.  The 4096-byte buffer of write_stream is scaled to BufLen.     *)
(* The vendored native hash functions are not part of the Rust sources;    *)
(* they are modelled by small mixing functions, one per native entry       *)
(* point, that keep the relations the native libraries define between      *)
(* their entry points and nothing more.                                    *)
(***************************************************************************)
EXTENDS Integers, Sequences, FiniteSets, TLC

\* ------------------------------------------------------------------ bounds
B32 == 3            \* bits of a (scaled) u32
MaxLen == 3         \* most bytes written into one hasher
MaxChunk == 2       \* longest slice given to one write()
MaxCalls == 4       \* most write()/finish() calls on one hasher
MaxByte == 1        \* byte values are 0..MaxByte
BufLen == 3         \* the buffer of write_stream ([0_u8; 4096], scaled)
MaxStream == 7      \* most bytes a reader produces
MaxIntr == 1        \* most Interrupted results of one reader
NThreads == 2       \* threads calling Seed::gen() / RandomState::new()
MaxOps == 4         \* most Seed::gen(), RandomState::new() and build_hasher() calls
MaxRS == 2          \* most RandomState instances
MaxObjs == 2        \* most native-context hashers made in one run
MaxCtxWrites == 2   \* most write() calls on native-context hashers in one run

RECURSIVE Pow2(_)
Pow2(n) == IF n = 0 THEN 1 ELSE 2 * Pow2(n - 1)

U32 == Pow2(B32)
U64 == U32 * U32
U128 == U64 * U64

Byte == 0..MaxByte

RECURSIVE SeqsUpTo(_, _)
SeqsUpTo(S, n) ==
    IF n = 0 THEN {<<>>}
    ELSE LET shorter == SeqsUpTo(S, n - 1)
         IN  shorter \cup {Append(s, x) : s \in {t \in shorter : Len(t) = n - 1}, x \in S}

\* the slices given to write(): every length up to MaxChunk, the bytes
\* counting up from any first byte
Chunks == {[i \in 1..n |-> (k + i - 1) % (MaxByte + 1)] : n \in 0..MaxChunk, k \in Byte}

\* ------------------------------------------------- extprim::u128 accessors
low64(x) == x % U64
high64(x) == x \div U64
from_parts(hi, lo) == hi * U64 + lo
as_u32(x) == x % U32

\* ------------------------------------------ native entry points (vendored)
\* One mixing step and the absorption of a byte slice into a running value.
Mix(h, b, mul, M) == (h * mul + b + 1) % M

RECURSIVE Absorb(_, _, _, _)
Absorb(h, bytes, mul, M) ==
    IF bytes = <<>> THEN h
    ELSE Absorb(Mix(h, Head(bytes), mul, M), Tail(bytes), mul, M)

\* The length is part of every native digest.
Digest(h, bytes, mul, M) == (Absorb(h, bytes, mul, M) * 3 + Len(bytes)) % M

\* CityHash (City.cpp): CityHash64WithSeed(s, seed) is
\* CityHash64WithSeeds(s, k2, seed), which is HashLen16(CityHash64(s) - k2, seed).
k2 == 5
HashLen16(u, v) == ((u + 3) * 7 + v * 5 + 1) % U64
ffi_CityHash64(bytes) == Digest(2, bytes, 5, U64)
ffi_CityHash64WithSeeds(bytes, seed0, seed1) ==
    HashLen16((ffi_CityHash64(bytes) + U64 - (seed0 % U64)) % U64, seed1)
ffi_CityHash64WithSeed(bytes, seed) == ffi_CityHash64WithSeeds(bytes, k2, seed)
ffi_CityHash32WithSeed(bytes, seed) == Digest(seed, bytes, 3, U32)
\* CityHash128(s) of a short input is CityHash128WithSeed(s, uint128(k0, k1)).
k0k1 == 11
ffi_CityHash128WithSeed(bytes, seed) == Digest(seed, bytes, 7, U128)
ffi_CityHash128(bytes) == ffi_CityHash128WithSeed(bytes, k0k1)

\* MurmurHash3_x64_128(key, len, seed, out)
ffi_MurmurHash3_x64_128(bytes, seed) == Digest(seed + 1, bytes, 11, U128)

\* SpookyHash::Hash128(message, length, &hash1, &hash2): the two words are
\* seeds on input and the two halves of the hash on output.
ffi_SpookyHasherHash(bytes, hash1, hash2) ==
    <<Digest((hash1 + 2 * hash2) % U64, bytes, 5, U64),
      Digest((3 * hash1 + hash2 + 1) % U64, bytes, 7, U64)>>

\* XXH32 / XXH64 (xxhash.c)
ffi_XXH32(bytes, seed) == Digest(seed, bytes, 5, U32)
ffi_XXH64(bytes, seed) == Digest(seed, bytes, 7, U64)

\* XXH3: XXH3_64bits(data) is XXH3_64bits_withSeed(data, 0), likewise 128.
ffi_XXH3_64bits_withSeed(bytes, seed) == Digest(seed + 3, bytes, 3, U64)
ffi_XXH3_64bits(bytes) == ffi_XXH3_64bits_withSeed(bytes, 0)
\* XXH128_hash_t { low64, high64 }
ffi_XXH3_128bits_withSeed(bytes, seed) ==
    [low64 |-> Digest(seed + 1, bytes, 5, U64), high64 |-> Digest(seed + 2, bytes, 3, U64)]
ffi_XXH3_128bits(bytes) == ffi_XXH3_128bits_withSeed(bytes, 0)

\* umash_full(params, seed, which, data, n); umash_fprint returns
\* hash[0] = umash_full(.., 0, ..) and hash[1] = umash_full(.., 1, ..).
\* umash_params_derive(params, bits, NULL) fills the parameters from bits and
\* the default key; umash_full reads them.
umash_params_derive(bits) == bits
ffi_umash_full_with(params, seed, which, bytes) ==
    Digest(seed + params + 2 * which + 1, bytes, 5 + 2 * which, U64)
ffi_umash_full(seed, which, bytes) ==
    ffi_umash_full_with(umash_params_derive(0), seed, which, bytes)
ffi_umash_fprint(seed, bytes) == <<ffi_umash_full(seed, 0, bytes), ffi_umash_full(seed, 1, bytes)>>

\* prvhash64_64m(msg, len, seed): the one-shot 64-bit prvhash.
ffi_prvhash64_64m(bytes, seed) == Digest(seed + 4, bytes, 3, U64)
\* prvhash64s (init/update/final): the streamed prvhash, another function
\* than prvhash64_64m (prv.rs:33 and prv.rs:100 give different values for
\* b"hello"); its result fills a hash buffer of HashLen bytes.
ffi_prvhash64s(seed4, bytes, M) ==
    Digest((seed4[1] + 2 * seed4[2] + 3 * seed4[3] + 5 * seed4[4] + 6) % M, bytes, 7, M)

\* seahash: hash(buf) is hash_seeded(buf, K1, K2, K3, K4) for four fixed
\* constants; SeaHasher is seeded the same way by new() but its finish() is
\* another function of the written bytes than hash_seeded (sea.rs:41 and
\* sea.rs:94 give different values for b"hello").
SeaK == <<1, 2, 3, 4>>
seahash_hash_seeded(bytes, a, b, c, d) == Digest((a + 2 * b + 3 * c + 5 * d) % U64, bytes, 5, U64)
seahash_hash(bytes) == seahash_hash_seeded(bytes, SeaK[1], SeaK[2], SeaK[3], SeaK[4])
seahash_SeaHasher_finish(seeds, bytes) ==
    Digest((seeds[1] + 2 * seeds[2] + 3 * seeds[3] + 5 * seeds[4] + 1) % U64, bytes, 3, U64)

\* ------------------------------------------------ Option<Seed> of a buffer
None == [some |-> FALSE, v |-> 0]
Some(x) == [some |-> TRUE, v |-> x]

\* --------------------------------------------------- FastHash marker types
BufMarkers == {"CityHash32", "CityHash64", "CityHash128", "Murmur3_x64_128"}
Markers == BufMarkers \cup
    {"SpookyHash32", "SpookyHash64", "SpookyHash128", "XXHash32", "XXHash64",
     "xxh3::Hash64", "xxh3::Hash128", "umash::Hash64", "umash::Hash128",
     "prv::Hash64", "sea::Hash64"}

\* FastHash::Value: the width of the marker's output.
ValueMod(T) ==
    CASE T \in {"CityHash32", "SpookyHash32", "XXHash32"} -> U32
      [] T \in {"CityHash128", "Murmur3_x64_128", "SpookyHash128", "xxh3::Hash128",
                "umash::Hash128"} -> U128
      [] OTHER -> U64

\* FastHash::Seed: Default::default() of the marker's seed type.
DefaultSeed(T) == IF T = "sea::Hash64" THEN <<0, 0, 0, 0>> ELSE 0

\* The seeds the model hashes with: the default one and two others.
MarkerSeeds(T) ==
    IF T = "sea::Hash64" THEN {<<0, 0, 0, 0>>, <<1, 2, 3, 4>>, <<1, 0, 2, 0>>}
    ELSE {0, 1, 6}

CityHash32_hash_with_seed(bytes, seed) == ffi_CityHash32WithSeed(bytes, seed)
CityHash64_hash(bytes) == ffi_CityHash64(bytes)
CityHash64_hash_with_seed(bytes, seed) == ffi_CityHash64WithSeed(bytes, seed)
CityHash128_hash(bytes) == ffi_CityHash128(bytes)
CityHash128_hash_with_seed(bytes, seed) == ffi_CityHash128WithSeed(bytes, seed)
Murmur3_x64_128_hash_with_seed(bytes, seed) == ffi_MurmurHash3_x64_128(bytes, seed)

SpookyHash32_hash_with_seed(bytes, seed) == as_u32(ffi_SpookyHasherHash(bytes, seed, seed)[1])
SpookyHash64_hash_with_seed(bytes, seed) == ffi_SpookyHasherHash(bytes, seed, seed)[1]
SpookyHash128_hash_with_seed(bytes, seed) ==
    LET h == ffi_SpookyHasherHash(bytes, high64(seed), low64(seed))
    IN  from_parts(h[1], h[2])

XXHash32_hash_with_seed(bytes, seed) == ffi_XXH32(bytes, seed)
XXHash64_hash_with_seed(bytes, seed) == ffi_XXH64(bytes, seed)

xxh3_Hash64_hash(bytes) == ffi_XXH3_64bits(bytes)
xxh3_Hash64_hash_with_seed(bytes, seed) == ffi_XXH3_64bits_withSeed(bytes, seed)
\* mem::transmute of XXH128_hash_t { low64, high64 }
xxh3_Hash128_hash(bytes) ==
    LET h == ffi_XXH3_128bits(bytes) IN h.low64 + h.high64 * U64
xxh3_Hash128_hash_with_seed(bytes, seed) ==
    LET h == ffi_XXH3_128bits_withSeed(bytes, seed) IN h.low64 + h.high64 * U64

umash_Hash64_hash_with_seed(bytes, seed) == ffi_umash_full(seed, 0, bytes)
umash_Hash128_hash_with_seed(bytes, seed) ==
    LET fp == ffi_umash_fprint(seed, bytes) IN fp[1] * U64 + fp[2]

prv_Hash64_hash_with_seed(bytes, seed) == ffi_prvhash64_64m(bytes, seed)

sea_Hash64_hash(bytes) == seahash_hash(bytes)
sea_Hash64_hash_with_seed(bytes, seed) ==
    seahash_hash_seeded(bytes, seed[1], seed[2], seed[3], seed[4])

\* FastHash::hash_with_seed, by marker.
hash_with_seed(T, bytes, seed) ==
    CASE T = "CityHash32" -> CityHash32_hash_with_seed(bytes, seed)
      [] T = "CityHash64" -> CityHash64_hash_with_seed(bytes, seed)
      [] T = "CityHash128" -> CityHash128_hash_with_seed(bytes, seed)
      [] T = "Murmur3_x64_128" -> Murmur3_x64_128_hash_with_seed(bytes, seed)
      [] T = "SpookyHash32" -> SpookyHash32_hash_with_seed(bytes, seed)
      [] T = "SpookyHash64" -> SpookyHash64_hash_with_seed(bytes, seed)
      [] T = "SpookyHash128" -> SpookyHash128_hash_with_seed(bytes, seed)
      [] T = "XXHash32" -> XXHash32_hash_with_seed(bytes, seed)
      [] T = "XXHash64" -> XXHash64_hash_with_seed(bytes, seed)
      [] T = "xxh3::Hash64" -> xxh3_Hash64_hash_with_seed(bytes, seed)
      [] T = "xxh3::Hash128" -> xxh3_Hash128_hash_with_seed(bytes, seed)
      [] T = "umash::Hash64" -> umash_Hash64_hash_with_seed(bytes, seed)
      [] T = "umash::Hash128" -> umash_Hash128_hash_with_seed(bytes, seed)
      [] T = "prv::Hash64" -> prv_Hash64_hash_with_seed(bytes, seed)
      [] T = "sea::Hash64" -> sea_Hash64_hash_with_seed(bytes, seed)

\* The trait's default FastHash::hash.
FastHash_hash(T, bytes) == hash_with_seed(T, bytes, DefaultSeed(T))

\* The markers that override hash() with an unseeded entry point.
OverridesHash == {"CityHash64", "CityHash128", "xxh3::Hash64", "xxh3::Hash128", "sea::Hash64"}

\* FastHash::hash, by marker.
hash(T, bytes) ==
    CASE T = "CityHash64" -> CityHash64_hash(bytes)
      [] T = "CityHash128" -> CityHash128_hash(bytes)
      [] T = "xxh3::Hash64" -> xxh3_Hash64_hash(bytes)
      [] T = "xxh3::Hash128" -> xxh3_Hash128_hash(bytes)
      [] T = "sea::Hash64" -> sea_Hash64_hash(bytes)
      [] OTHER -> FastHash_hash(T, bytes)

\* lazy_static! UMASH_PARAMS: the cell before its first use
NoParams == [init |-> FALSE, v |-> 0]

\* (parameters that are derived again, from other inputs, on every use)
UMASH_PARAMS_rederived(p) ==
    [init |-> TRUE, v |-> IF p.init THEN (p.v + 1) % 4 ELSE umash_params_derive(0)]

\* &*UMASH_PARAMS: the cell after the deref, derived on the first one
UMASH_PARAMS(p) == IF p.init THEN p ELSE [init |-> TRUE, v |-> umash_params_derive(0)]

UmashMarkers == {"umash::Hash64", "umash::Hash128"}

\* T::hash_with_seed(bytes, seed) called in a process whose UMASH_PARAMS cell
\* is p: the value returned and the cell afterwards
hash_with_seed_in(T, bytes, seed, p) ==
    IF T \in UmashMarkers
    THEN LET q == UMASH_PARAMS(p)
             h0 == ffi_umash_full_with(q.v, seed, 0, bytes)
             h1 == ffi_umash_full_with(q.v, seed, 1, bytes)
         IN  [params |-> q, ret |-> IF T = "umash::Hash64" THEN h0 ELSE h0 * U64 + h1]
    ELSE [params |-> p, ret |-> hash_with_seed(T, bytes, seed)]

\* T::hash(bytes) called in a process whose UMASH_PARAMS cell is p
hash_in(T, bytes, p) ==
    IF T \in UmashMarkers THEN hash_with_seed_in(T, bytes, DefaultSeed(T), p)
    ELSE [params |-> p, ret |-> hash(T, bytes)]

\* ------------------------------------------------------------ hasher types
\* impl_hasher!($hasher, $hash) and impl_hasher_ext!($hasher, $hash)
BufHashers == {"CityHasher32", "CityHasher64"}
BufHashersExt == {"CityHasher128", "Murmur3Hasher_x64_128"}
NativeHashers == {"SpookyHasher128", "XXHasher32", "XXHasher64", "xxh3::Hasher64",
                  "xxh3::Hasher128", "umash::Hasher64", "umash::Hasher128",
                  "prv::Hasher64", "prv::Hasher128", "sea::Hasher64"}
Hashers == BufHashers \cup BufHashersExt \cup NativeHashers
\* the hashers that implement HasherExt
ExtHashers == BufHashersExt \cup
    {"SpookyHasher128", "xxh3::Hasher128", "umash::Hasher128", "prv::Hasher128"}
\* the hashers that implement StreamHasher
StreamHashers == NativeHashers

\* $hash of a macro-generated hasher
MarkerOf(H) ==
    CASE H = "CityHasher32" -> "CityHash32"
      [] H = "CityHasher64" -> "CityHash64"
      [] H = "CityHasher128" -> "CityHash128"
      [] H = "Murmur3Hasher_x64_128" -> "Murmur3_x64_128"

\* BuildHasherExt::FastHasher / BuildHasher::Hasher of a marker
\* (XXHash32 implements neither).
BuildMarkers == Markers \ {"XXHash32"}
HasherOf(T) ==
    CASE T = "CityHash32" -> "CityHasher32"
      [] T = "CityHash64" -> "CityHasher64"
      [] T = "CityHash128" -> "CityHasher128"
      [] T = "Murmur3_x64_128" -> "Murmur3Hasher_x64_128"
      [] T \in {"SpookyHash32", "SpookyHash64", "SpookyHash128"} -> "SpookyHasher128"
      [] T = "XXHash64" -> "XXHasher64"
      [] T = "xxh3::Hash64" -> "xxh3::Hasher64"
      [] T = "xxh3::Hash128" -> "xxh3::Hasher128"
      [] T = "umash::Hash64" -> "umash::Hasher64"
      [] T = "umash::Hash128" -> "umash::Hasher128"
      [] T = "prv::Hash64" -> "prv::Hasher64"
      [] T = "sea::Hash64" -> "sea::Hasher64"

\* FastHasher::Seed: its Default::default() and the seeds the model uses.
HasherDefaultSeed(H) ==
    CASE H \in BufHashers \cup BufHashersExt -> DefaultSeed(MarkerOf(H))
      [] H = "SpookyHasher128" -> <<0, 0>>
      [] H \in {"prv::Hasher64", "prv::Hasher128", "sea::Hasher64"} -> <<0, 0, 0, 0>>
      [] OTHER -> 0

HasherSeeds(H) ==
    CASE H \in BufHashers \cup BufHashersExt -> MarkerSeeds(MarkerOf(H))
      [] H = "SpookyHasher128" -> {<<0, 0>>, <<1, 1>>, <<2, 5>>}
      [] H \in {"prv::Hasher64", "prv::Hasher128", "sea::Hasher64"} ->
            {<<0, 0, 0, 0>>, <<1, 2, 3, 4>>, <<1, 0, 2, 0>>}
      [] OTHER -> {0, 1, 6}

\* --------------------------------- impl_hasher! / impl_hasher_ext! (buffer)
\* (a buffer made with vec![0; capacity]: capacity bytes long from the start)
with_capacity_and_seed_filled(H, capacity, seed) ==
    [type |-> H, seed |-> seed, bytes |-> [i \in 1..capacity |-> 0], cap |-> capacity]

\* BufHasher::with_capacity_and_seed: Vec::with_capacity(capacity) is empty
\* and has room for capacity bytes.
with_capacity_and_seed(H, capacity, seed) ==
    [type |-> H, seed |-> seed, bytes |-> <<>>, cap |-> capacity]

\* Vec's growth when need bytes must fit: the capacity doubles, at least
Grow(cap, need) == IF need <= cap THEN cap ELSE IF 2 * cap > need THEN 2 * cap ELSE need

\* AsRef<[u8]>::as_ref: &self.bytes;  BufHasher::as_slice and BufHasher::len
as_ref(h) == h.bytes
as_slice(h) == as_ref(h)
BufHasher_len(h) == Len(as_ref(h))

Buf_new(H) == with_capacity_and_seed(H, 64, None)
Buf_with_seed(H, seed) == with_capacity_and_seed(H, 64, Some(seed))

\* (a write that keeps only the last slice)
Buf_write_replacing(h, bytes) == [h EXCEPT !.bytes = bytes]

\* Hasher::write: self.bytes.extend_from_slice(bytes)
Buf_write(h, bytes) ==
    [h EXCEPT !.bytes = h.bytes \o bytes, !.cap = Grow(@, Len(h.bytes) + Len(bytes))]

\* seed.map_or_else(|| $hash::hash(&bytes), |seed| $hash::hash_with_seed(&bytes, seed))
finalize(h) ==
    IF h.seed.some THEN hash_with_seed(MarkerOf(h.type), h.bytes, h.seed.v)
    ELSE hash(MarkerOf(h.type), h.bytes)

\* (a finish that takes the buffer out of the hasher)
Buf_finish_draining(h) ==
    [self |-> [h EXCEPT !.bytes = <<>>],
     ret |-> IF h.type \in BufHashersExt THEN low64(finalize(h)) ELSE finalize(h)]

\* (a finish that projects the high half of the wide hash)
Buf_finish_high64(h) ==
    [self |-> h,
     ret |-> IF h.type \in BufHashersExt THEN high64(finalize(h)) ELSE finalize(h)]

\* Hasher::finish(&self): the value returned and the hasher afterwards.
\* impl_hasher!: finalize().into();  impl_hasher_ext!: finalize().low64()
Buf_finish(h) ==
    [self |-> h,
     ret |-> IF h.type \in BufHashersExt THEN low64(finalize(h)) ELSE finalize(h)]

\* HasherExt::finish_ext(&self) of impl_hasher_ext!
Buf_finish_ext(h) == [self |-> h, ret |-> finalize(h)]

\* ------------------------------------------------ native-context hashers
\* A native streaming context: the seed it was reset with and the bytes
\* its update calls have absorbed.
NativeInit(seed) == [seed |-> seed, data |-> <<>>]
NativeUpdate(ctx, bytes) == [ctx EXCEPT !.data = ctx.data \o bytes]

\* The native digest/final call of each hasher type on its context.
ffi_SpookyHasherFinal(ctx) == ffi_SpookyHasherHash(ctx.data, ctx.seed[1], ctx.seed[2])
ffi_XXH32_digest(ctx) == ffi_XXH32(ctx.data, ctx.seed)
ffi_XXH64_digest(ctx) == ffi_XXH64(ctx.data, ctx.seed)
ffi_XXH3_64bits_digest(ctx) == ffi_XXH3_64bits_withSeed(ctx.data, ctx.seed)
ffi_XXH3_128bits_digest(ctx) == ffi_XXH3_128bits_withSeed(ctx.data, ctx.seed)
ffi_umash_digest(ctx) == ffi_umash_full(ctx.seed, 0, ctx.data)
ffi_umash_fp_digest(ctx) == ffi_umash_fprint(ctx.seed, ctx.data)
ffi_prvhash64s_final(ctx, M) == ffi_prvhash64s(ctx.seed, ctx.data, M)

\* FastHasher::with_seed of the native hashers: create a context, reset it.
Native_with_seed(H, seed) == [type |-> H, ctx |-> NativeInit(seed)]

\* Hasher::write of the native hashers: the native update call.
Native_write(h, bytes) == [h EXCEPT !.ctx = NativeUpdate(h.ctx, bytes)]

SpookyHasher128_finish_ext(h) ==
    LET f == ffi_SpookyHasherFinal(h.ctx) IN from_parts(f[1], f[2])
SpookyHasher128_finish(h) == low64(SpookyHasher128_finish_ext(h))
\* (a finish that widens the 32-bit digest as a signed value)
XXHasher32_finish_sign_extending(h) ==
    LET d == ffi_XXH32_digest(h.ctx)
    IN  IF d >= U32 \div 2 THEN d + (U64 - U32) ELSE d
\* XXH32_digest(self.0) as u64
XXHasher32_finish(h) == ffi_XXH32_digest(h.ctx)
XXHasher64_finish(h) == ffi_XXH64_digest(h.ctx)
xxh3_Hasher64_finish(h) == ffi_XXH3_64bits_digest(h.ctx)
xxh3_Hasher128_finish(h) == ffi_XXH3_128bits_digest(h.ctx).low64
xxh3_Hasher128_finish_ext(h) ==
    LET d == ffi_XXH3_128bits_digest(h.ctx) IN d.low64 + d.high64 * U64
umash_Hasher64_finish(h) == ffi_umash_digest(h.ctx)
umash_Hasher128_finish_ext(h) ==
    LET fp == ffi_umash_fp_digest(h.ctx) IN fp[1] * U64 + fp[2]
umash_Hasher128_finish(h) == umash_Hasher128_finish_ext(h) % U64
\* prv::Hasher<T>::finish reads the first u64 of the hash buffer.
prv_Hasher64_finish(h) == ffi_prvhash64s_final(h.ctx, U64)
prv_Hasher128_finish(h) == ffi_prvhash64s_final(h.ctx, U128) % U64
prv_Hasher128_finish_ext(h) == ffi_prvhash64s_final(h.ctx, U128)
sea_Hasher64_finish(h) == seahash_SeaHasher_finish(h.ctx.seed, h.ctx.data)

\* (a finish whose native digest call leaves the context finalised: reset)
Native_finish_finalising(h) ==
    [self |-> [h EXCEPT !.ctx = NativeInit(h.ctx.seed)],
     ret |-> CASE h.type = "SpookyHasher128" -> SpookyHasher128_finish(h)
               [] h.type = "XXHasher32" -> XXHasher32_finish(h)
               [] h.type = "XXHasher64" -> XXHasher64_finish(h)
               [] h.type = "xxh3::Hasher64" -> xxh3_Hasher64_finish(h)
               [] h.type = "xxh3::Hasher128" -> xxh3_Hasher128_finish(h)
               [] h.type = "umash::Hasher64" -> umash_Hasher64_finish(h)
               [] h.type = "umash::Hasher128" -> umash_Hasher128_finish(h)
               [] h.type = "prv::Hasher64" -> prv_Hasher64_finish(h)
               [] h.type = "prv::Hasher128" -> prv_Hasher128_finish(h)
               [] h.type = "sea::Hasher64" -> sea_Hasher64_finish(h)]

Native_finish(h) ==
    [self |-> h,
     ret |-> CASE h.type = "SpookyHasher128" -> SpookyHasher128_finish(h)
               [] h.type = "XXHasher32" -> XXHasher32_finish(h)
               [] h.type = "XXHasher64" -> XXHasher64_finish(h)
               [] h.type = "xxh3::Hasher64" -> xxh3_Hasher64_finish(h)
               [] h.type = "xxh3::Hasher128" -> xxh3_Hasher128_finish(h)
               [] h.type = "umash::Hasher64" -> umash_Hasher64_finish(h)
               [] h.type = "umash::Hasher128" -> umash_Hasher128_finish(h)
               [] h.type = "prv::Hasher64" -> prv_Hasher64_finish(h)
               [] h.type = "prv::Hasher128" -> prv_Hasher128_finish(h)
               [] h.type = "sea::Hasher64" -> sea_Hasher64_finish(h)]

Native_finish_ext(h) ==
    [self |-> h,
     ret |-> CASE h.type = "SpookyHasher128" -> SpookyHasher128_finish_ext(h)
               [] h.type = "xxh3::Hasher128" -> xxh3_Hasher128_finish_ext(h)
               [] h.type = "umash::Hasher128" -> umash_Hasher128_finish_ext(h)
               [] h.type = "prv::Hasher128" -> prv_Hasher128_finish_ext(h)]

\* ------------------------------------------------- the methods, by hasher
IsBuf(H) == H \in BufHashers \cup BufHashersExt

with_seed(H, seed) == IF IsBuf(H) THEN Buf_with_seed(H, seed) ELSE Native_with_seed(H, seed)

\* The trait's default FastHasher::new.
FastHasher_new(H) == with_seed(H, HasherDefaultSeed(H))

\* new(): the macro hashers and sea::Hasher64 override the trait's default.
new(H) ==
    CASE IsBuf(H) -> Buf_new(H)
      [] H = "sea::Hasher64" -> Native_with_seed(H, SeaK)
      [] OTHER -> FastHasher_new(H)

write(h, bytes) == IF IsBuf(h.type) THEN Buf_write(h, bytes) ELSE Native_write(h, bytes)
finish(h) == IF IsBuf(h.type) THEN Buf_finish(h) ELSE Native_finish(h)
finish_ext(h) == IF IsBuf(h.type) THEN Buf_finish_ext(h) ELSE Native_finish_ext(h)

\* the xxh3 hashers, whose Default::default() is written out by hand
Xxh3Hashers == {"xxh3::Hasher64", "xxh3::Hasher128"}
\* the hasher types of this crate that implement Default
DefaultHashers == Hashers \ {"sea::Hasher64"}

\* What the memory XXH3_createState() returns may hold before any reset: a
\* context as a reset would leave it, or one that looks seeded or filled.
NoAlloc == NativeInit(0)
Allocs == {NoAlloc, NativeInit(1), NativeUpdate(NativeInit(0), <<1>>)}

\* (a Default for the xxh3 hashers that is Self::new(), as for the others)
default_as_new(H, alloc) == new(H)

\* Default::default(): Self::new() / $hasher::new(), but for the xxh3 hashers
\* Hasher64(NonNull::new_unchecked(XXH3_createState())) with no reset call,
\* so the context is what the allocation holds (alloc)
default(H, alloc) ==
    IF H \in Xxh3Hashers THEN [type |-> H, ctx |-> alloc] ELSE new(H)

\* (a build_hasher that hands out a hasher with input already accumulated)
build_hasher_stale(T) == write(new(HasherOf(T)), <<1>>)

\* impl_fasthash!: BuildHasher::build_hasher(&self) of a marker is $hasher::new()
build_hasher(T) == new(HasherOf(T))

\* ===================================================== one hasher's life
VARIABLES
    h,          \* the hasher, or NoHasher
    origin,     \* how it was constructed: [ctor, type, marker, seed, alloc,
                \* capacity]
    log,        \* the calls made on it so far: <<"write", bytes>>,
                \* <<"finish", value>> or <<"finish_ext", value>>
    call,       \* the last one-shot call: [fn, T, bytes, seed, ret, derived]
    ffi,        \* the last native one-shot call: [T, n, len], the slice's
                \* length and the length argument the entry point received
    params,     \* UMASH_PARAMS, the lazily derived parameters of umash
    ws,         \* the running write_stream call: its locals and position
    rd,         \* the reader handed to write_stream
    tls,        \* SEEDS: each thread's generator, or uninitialised
    rstates,    \* the RandomState instances
    built,      \* the hashers each RandomState has built
    seeds,      \* the Seeds each thread has obtained, and their conversions
    nops,       \* the Seed and RandomState calls made so far
    objs,       \* the native-context hashers made so far, live or dropped
    heap,       \* the native contexts allocated so far
    prog        \* the process: running, aborted or crashed

hvars == <<h, origin, log>>
ovars == <<call, params, ffi>>
wvars == <<ws, rd>>
rvars == <<tls, rstates, built, seeds, nops>>
nvars == <<objs, heap, prog>>
vars == <<h, origin, log, call, params, ffi, ws, rd, tls, rstates, built, seeds, nops, objs, heap, prog>>

NoHasher == [type |-> "none"]
NoOrigin == [ctor |-> "none", type |-> "none", marker |-> "none", seed |-> 0,
             alloc |-> NoAlloc, capacity |-> 0]

RECURSIVE Written(_)
\* the concatenation of the slices written by the calls of a log
Written(l) ==
    IF l = <<>> THEN <<>>
    ELSE (IF Head(l)[1] = "write" THEN Head(l)[2] ELSE <<>>) \o Written(Tail(l))

HInit == h = NoHasher /\ origin = NoOrigin /\ log = <<>>

New(H) ==
    /\ h = NoHasher
    /\ h' = new(H)
    /\ origin' = [NoOrigin EXCEPT !.ctor = "new", !.type = H]
    /\ log' = <<>>
    /\ UNCHANGED <<ovars, wvars, rvars, nvars>>

WithSeed(H, seed) ==
    /\ h = NoHasher
    /\ h' = with_seed(H, seed)
    /\ origin' = [NoOrigin EXCEPT !.ctor = "with_seed", !.type = H, !.seed = seed]
    /\ log' = <<>>
    /\ UNCHANGED <<ovars, wvars, rvars, nvars>>

Default(H, alloc) ==
    /\ h = NoHasher
    /\ H \notin Xxh3Hashers => alloc = NoAlloc
    /\ h' = default(H, alloc)
    /\ origin' = [NoOrigin EXCEPT !.ctor = "default", !.type = H, !.alloc = alloc]
    /\ log' = <<>>
    /\ UNCHANGED <<ovars, wvars, rvars, nvars>>

\* the capacities and the Option<Seed> values the model passes to
\* with_capacity_and_seed
Caps == {0, 1}
OptSeeds == {None, Some(1)}

WithCapacityAndSeed(H, capacity, seed) ==
    /\ h = NoHasher
    /\ h' = with_capacity_and_seed(H, capacity, seed)
    /\ origin' = [NoOrigin EXCEPT !.ctor = "with_capacity_and_seed", !.type = H,
                                  !.seed = seed, !.capacity = capacity]
    /\ log' = <<>>
    /\ UNCHANGED <<ovars, wvars, rvars, nvars>>

BuildHasher(T) ==
    /\ h = NoHasher
    /\ h' = build_hasher(T)
    /\ origin' = [NoOrigin EXCEPT !.ctor = "build_hasher", !.type = HasherOf(T), !.marker = T]
    /\ log' = <<>>
    /\ UNCHANGED <<ovars, wvars, rvars, nvars>>

Write(bytes) ==
    /\ h # NoHasher
    /\ ws.pc = "idle"
    /\ Len(log) < MaxCalls
    /\ Len(Written(log)) + Len(bytes) <= MaxLen
    /\ h' = write(h, bytes)
    /\ log' = Append(log, <<"write", bytes>>)
    /\ UNCHANGED <<origin, ovars, wvars, rvars, nvars>>

Finish ==
    /\ h # NoHasher
    /\ ws.pc # "loop"
    /\ Len(log) < MaxCalls
    /\ LET r == finish(h)
       IN  /\ h' = r.self
           /\ log' = Append(log, <<"finish", r.ret>>)
    /\ UNCHANGED <<origin, ovars, wvars, rvars, nvars>>

FinishExt ==
    /\ h # NoHasher
    /\ ws.pc # "loop"
    /\ h.type \in ExtHashers
    /\ Len(log) < MaxCalls
    /\ LET r == finish_ext(h)
       IN  /\ h' = r.self
           /\ log' = Append(log, <<"finish_ext", r.ret>>)
    /\ UNCHANGED <<origin, ovars, wvars, rvars, nvars>>

Drop ==
    /\ h # NoHasher
    /\ ws.pc # "loop"
    /\ h' = NoHasher
    /\ origin' = NoOrigin
    /\ log' = <<>>
    /\ UNCHANGED <<ovars, wvars, rvars, nvars>>

HNext ==
    \/ \E H \in Hashers : New(H)
    \/ \E H \in Hashers : \E seed \in HasherSeeds(H) : WithSeed(H, seed)
    \/ \E T \in BuildMarkers : BuildHasher(T)
    \/ \E H \in DefaultHashers : \E alloc \in Allocs : Default(H, alloc)
    \/ \E H \in BufHashers \cup BufHashersExt : \E capacity \in Caps :
          \E seed \in OptSeeds : WithCapacityAndSeed(H, capacity, seed)
    \/ \E bytes \in Chunks : Write(bytes)
    \/ Finish
    \/ FinishExt
    \/ Drop

\* The last call of the log, when it is a finish() / finish_ext().
Last == log[Len(log)]
Finished == log # <<>> /\ Last[1] = "finish"
FinishedExt == log # <<>> /\ Last[1] = "finish_ext"

\* ---------------------------------------------------------------------- C1
\* C1: a byte-buffering hasher made by new() that received write(c1)..
\* write(cn) returns from finish() (finish_ext() for the 128-bit hashers)
\* the marker's hash(concat(c1..cn)); made by with_seed(s) it returns
\* hash_with_seed(concat(c1..cn), s).
OneShotOf(o, bytes) ==
    IF o.ctor = "with_seed" THEN hash_with_seed(MarkerOf(o.type), bytes, o.seed)
    ELSE hash(MarkerOf(o.type), bytes)

C1_BufferEqualsOneShot ==
    (h # NoHasher /\ IsBuf(h.type) /\ origin.ctor \in {"new", "with_seed"}) =>
        /\ (Finished /\ h.type \in BufHashers) => Last[2] = OneShotOf(origin, Written(log))
        /\ (FinishedExt) => Last[2] = OneShotOf(origin, Written(log))

C1_Witness ==
    /\ h # NoHasher /\ h.type = "CityHasher128" /\ origin.ctor = "with_seed"
    /\ FinishedExt
    /\ Len(log) = 4
    /\ log[1] = <<"write", <<1>>>> /\ log[2] = <<"write", <<>>>> /\ log[3][1] = "write"
    /\ Len(Written(log)) = 3

\* ------------------------------------------------------------- replaying
\* The hasher a constructor call returns.
Fresh(o) ==
    CASE o.ctor = "new" -> new(o.type)
      [] o.ctor = "with_seed" -> with_seed(o.type, o.seed)
      [] o.ctor = "build_hasher" -> build_hasher(o.marker)
      [] o.ctor = "default" -> default(o.type, o.alloc)
      [] o.ctor = "with_capacity_and_seed" ->
            with_capacity_and_seed(o.type, o.capacity, o.seed)

\* the Option<Seed> a hasher constructed as o was given
SeedGiven(o) ==
    CASE o.ctor = "with_seed" -> Some(o.seed)
      [] o.ctor = "with_capacity_and_seed" -> o.seed
      [] OTHER -> None

RECURSIVE WriteAll(_, _)
\* the hasher after the write() calls of a log, its finish calls left out
WriteAll(hh, l) ==
    IF l = <<>> THEN hh
    ELSE WriteAll(IF Head(l)[1] = "write" THEN write(hh, Head(l)[2]) ELSE hh, Tail(l))

\* ---------------------------------------------------------------------- C4
\* C4: for every hasher implementing HasherExt, in every state its writes
\* lead to, finish() returns the low 64 bits of what finish_ext() returns.
C4_FinishIsLow64 ==
    (h # NoHasher /\ h.type \in ExtHashers) =>
        /\ finish(h).ret = low64(finish_ext(h).ret)
        /\ Finished => Last[2] = low64(finish_ext(WriteAll(Fresh(origin), log)).ret)
        /\ FinishedExt => low64(Last[2]) = finish(WriteAll(Fresh(origin), log)).ret

C4_Witness ==
    /\ h # NoHasher /\ h.type = "xxh3::Hasher128"
    /\ Len(log) = 3 /\ log[1][1] = "write" /\ log[2][1] = "finish_ext" /\ log[3][1] = "finish"
    /\ Written(log) # <<>>
    /\ log[2][2] >= U64

\* ---------------------------------------------------------------------- C5
\* C5: on a byte-buffering hasher finish() does not modify the hasher:
\* every finish() returns what a hasher that received the same writes and
\* no finish() at all returns, so repeated calls agree and finish() calls
\* between writes change no later result.
C5_FinishDoesNotModify ==
    (h # NoHasher /\ IsBuf(h.type)) =>
        /\ h = WriteAll(Fresh(origin), log)
        /\ \A i \in 1..Len(log) :
              log[i][1] = "finish" =>
                  log[i][2] = finish(WriteAll(Fresh(origin), SubSeq(log, 1, i - 1))).ret

C5_Witness ==
    /\ h # NoHasher /\ h.type = "CityHasher64"
    /\ Len(log) = 4
    /\ log[1][1] = "write" /\ log[2][1] = "finish" /\ log[3][1] = "write" /\ log[4][1] = "finish"
    /\ log[1][2] # <<>> /\ log[3][2] # <<>>
    /\ log[2][2] # log[4][2]

\* ---------------------------------------------------------------------- C6
\* C6: the hasher a marker T designates (build_hasher() of T) computes T's
\* hash: after any writes, finish() is T::hash of the written bytes.
C6_DesignatedHasherComputesHash ==
    (h # NoHasher /\ origin.ctor = "build_hasher" /\ Finished) =>
        Last[2] = hash(origin.marker, Written(log))

\* ---------------------------------------------------------------------- C7
\* C7: new() is equivalent to with_seed(Default::default()): for the same
\* writes the two hashers return the same finish().
C7_NewIsWithDefaultSeed ==
    (h # NoHasher /\ origin.ctor = "new" /\ Finished) =>
        Last[2] = finish(WriteAll(with_seed(origin.type, HasherDefaultSeed(origin.type)), log)).ret

\* --------------------------------------------------------------------- C17
\* C17: build_hasher() on a marker returns a fresh hasher equivalent to
\* new(): nothing written yet and seeded as new() seeds, whatever was built,
\* written and dropped before; so after the same writes a built hasher
\* returns from finish() what a hasher made by new() returns.
C17_BuildHasherIsNew ==
    (h # NoHasher /\ origin.ctor = "build_hasher") =>
        /\ log = <<>> => h = new(HasherOf(origin.marker))
        /\ Finished =>
              Last[2] = finish(WriteAll(new(HasherOf(origin.marker)), log)).ret

\* a hasher built from the marker XXHash64 that was written to twice and
\* then finished
C17_Witness ==
    /\ h # NoHasher /\ origin.ctor = "build_hasher" /\ origin.marker = "XXHash64"
    /\ Len(log) = 3 /\ Finished
    /\ log[1][1] = "write" /\ log[1][2] # <<>>
    /\ log[2][1] = "write" /\ log[2][2] # <<>>

\* --------------------------------------------------------------------- C27
\* C27: a hasher made by Default::default() is the hasher new() makes: after
\* the same writes it is in the same state and finish() returns the same.
C27_DefaultIsNew ==
    (h # NoHasher /\ origin.ctor = "default") =>
        /\ h = WriteAll(new(origin.type), log)
        /\ Finished => Last[2] = finish(WriteAll(new(origin.type), log)).ret

\* --------------------------------------------------------------------- C28
\* the hashers of the 32-bit algorithms and their markers
Hashers32 == {"CityHasher32", "XXHasher32"}
Marker32(H) == IF H = "XXHasher32" THEN "XXHash32" ELSE MarkerOf(H)

\* the one-shot 32-bit hash a hasher constructed as o stands for
OneShot32(o, bytes) ==
    IF SeedGiven(o).some THEN hash_with_seed(Marker32(o.type), bytes, SeedGiven(o).v)
    ELSE hash(Marker32(o.type), bytes)

OfDefaultCapacity(o) ==
    IF SeedGiven(o).some THEN with_seed(o.type, SeedGiven(o).v) ELSE new(o.type)

\* C30: on a byte-buffering hasher, after any sequence of write() and
\* finish() calls as_slice() is the concatenation of the slices written and
\* len() its length (0 on a fresh hasher, whatever capacity it was made
\* with); the stored seed is the one given at construction; and finish()
\* returns what the hasher of the default capacity returns after the same
\* writes.
C30_BufferIsWhatWasWritten ==
    (h # NoHasher /\ IsBuf(h.type)) =>
        /\ as_slice(h) = Written(log)
        /\ BufHasher_len(h) = Len(Written(log))
        /\ h.seed = SeedGiven(origin)
        /\ Finished => Last[2] = finish(WriteAll(OfDefaultCapacity(origin), log)).ret

\* a seeded hasher made with capacity 1 that has outgrown it, written to
\* before and after a finish() and finished again
C30_Witness ==
    /\ h # NoHasher /\ origin.ctor = "with_capacity_and_seed"
    /\ origin.capacity = 1 /\ origin.seed.some
    /\ h.cap > 1 /\ BufHasher_len(h) = MaxLen
    /\ Finished /\ Len(log) = 4
    /\ log[1][1] = "write" /\ log[2][1] = "finish" /\ log[3][1] = "write"

\* --------------------------------------------------------------------- C19
\* the streaming hashers that hold a native context
CtxStreaming == NativeHashers \ {"sea::Hasher64"}

NoCall == [fn |-> "none", T |-> "none", bytes |-> <<>>, seed |-> 0, ret |-> 0,
           derived |-> FALSE]

\* bytes.as_ref().len() as i32: the low 32 bits of the usize, read as a
\* two's complement number
as_i32(n) == LET m == n % U32 IN IF m >= U32 \div 2 THEN m - U32 ELSE m

\* the markers whose native entry point takes the length as a C int
\* (the model hashes with Murmur3_x64_128 only; the others pass lengths)
I32Adapters == {"murmur::Hash32", "murmur::Hash32Aligned", "murmur2::Hash32",
                "murmur2::Hash64_x64", "Murmur3_x86_32", "Murmur3_x86_128",
                "Murmur3_x64_128", "Lookup3", "meow::Hash128"}

\* the length argument the adapter of marker T hands to its native entry
\* point for a slice of n bytes: len() as i32, or len() / len() as u64
LenArg(T, n) == IF T \in I32Adapters THEN as_i32(n) ELSE n

NoFfi == [T |-> "none", n |-> 0, len |-> 0]
NativeArgs(T, n) == [T |-> T, n |-> n, len |-> LenArg(T, n)]

OInit == call = NoCall /\ params = NoParams /\ ffi = NoFfi

\* T::hash(bytes)
Hash(T, bytes) ==
    /\ LET r == hash_in(T, bytes, params)
       IN  /\ call' = [fn |-> "hash", T |-> T, bytes |-> bytes, seed |-> 0,
                       ret |-> r.ret, derived |-> params.init]
           /\ params' = r.params
    /\ ffi' = NativeArgs(T, Len(bytes))
    /\ UNCHANGED <<hvars, wvars, rvars, nvars>>

\* T::hash_with_seed(bytes, seed)
HashWithSeed(T, bytes, seed) ==
    /\ LET r == hash_with_seed_in(T, bytes, seed, params)
       IN  /\ call' = [fn |-> "hash_with_seed", T |-> T, bytes |-> bytes, seed |-> seed,
                       ret |-> r.ret, derived |-> params.init]
           /\ params' = r.params
    /\ ffi' = NativeArgs(T, Len(bytes))
    /\ UNCHANGED <<hvars, wvars, rvars, nvars>>

\* umash::Hasher64::with_seed / Hasher128::with_seed, between two one-shot
\* calls: umash_init(state, &*UMASH_PARAMS, seed, ..)
UmashHasherWithSeed ==
    /\ params' = UMASH_PARAMS(params)
    /\ UNCHANGED <<call, ffi, hvars, wvars, rvars, nvars>>

\* the byte slices hashed at once: every length up to MaxLen, the bytes
\* counting up from any first byte
Inputs == {[i \in 1..n |-> (k + i - 1) % (MaxByte + 1)] : n \in 0..MaxLen, k \in Byte}

\* the lengths of the large slices: around the largest i32 and past the
\* largest u32
HugeLens == {U32 \div 2 - 1, U32 \div 2, U32 - 1, U32 + 1}

\* T::hash(bytes) on a large slice, up to the call of the native entry
\* point: of the slice the model keeps the length, the value is not modelled
\* (explored before the calls on the slices the model hashes)
HashHuge(T, n) ==
    /\ call.fn = "none"
    /\ ffi' = NativeArgs(T, n)
    /\ UNCHANGED <<call, params, hvars, wvars, rvars, nvars>>

ONext ==
    \/ \E T \in Markers \cup I32Adapters : \E n \in HugeLens : HashHuge(T, n)
    \/ \E T \in Markers : \E bytes \in Inputs : Hash(T, bytes)
    \/ \E T \in Markers : \E bytes \in Inputs :
          \E seed \in MarkerSeeds(T) : HashWithSeed(T, bytes, seed)
    \/ UmashHasherWithSeed

\* ---------------------------------------------------------------------- C8
\* C8: for every marker and byte slice hash(bytes) equals
\* hash_with_seed(bytes, Default::default()).
C8_HashIsDefaultSeeded ==
    call.fn = "hash" => call.ret = hash_with_seed(call.T, call.bytes, DefaultSeed(call.T))

\* --------------------------------------------------------------------- C29
\* C29: the length a native entry point receives is the length of the byte
\* slice, for every adapter and every slice length: it is never negative and
\* never wrapped.
C29_TrueLengthPassed ==
    ffi.T # "none" => (ffi.len = ffi.n /\ ffi.len >= 0)

\* --------------------------------------------------------------------- C20
\* what the call returns in a process that has done nothing else
PureValue(c) ==
    IF c.fn = "hash" THEN hash_in(c.T, c.bytes, NoParams).ret
    ELSE hash_with_seed_in(c.T, c.bytes, c.seed, NoParams).ret

C20_ValueOfInputsOnly ==
    /\ call.fn # "none" => call.ret = PureValue(call)
    /\ params.init => params.v = umash_params_derive(0)

C20_NoStateChanged ==
    /\ params' # params => (~params.init /\ params' = UMASH_PARAMS(NoParams))
    /\ UNCHANGED <<hvars, wvars, rvars, nvars>>

Ok(n) == [ok |-> TRUE, n |-> n, e |-> "none"]
Err(e) == [ok |-> FALSE, n |-> 0, e |-> e]
NoRet == [ok |-> FALSE, n |-> 0, e |-> "none"]

\* the error kinds a reader reports besides Interrupted
ErrKinds == {"WouldBlock", "Other"}

Idle == [pc |-> "idle"]
\* a reader: the bytes it still holds, those it has produced, the Interrupted
\* results it has returned, and the results of its read() calls in order, each
\* <<kind, value, position the read was given>> (before: the calls the
\* hasher had received when write_stream was called)
NoReader == [data |-> <<>>, produced |-> <<>>, intr |-> 0, trace |-> <<>>, before |-> 0]

Min(a, b) == IF a < b THEN a ELSE b

\* let mut buf = [0_u8; 4096]; let mut len = 0; let mut pos = 0; let ret;
\* (h0, reads and readpos record the hasher at the call, the read() calls
\* issued and the position handed to the last of them)
StreamLocals(hh) ==
    [pc |-> "loop", buf |-> [i \in 1..BufLen |-> 0], len |-> 0, pos |-> 0,
     ret |-> NoRet, brk |-> FALSE, h0 |-> hh, reads |-> 0, readpos |-> 0]

\* (a flush of whatever the buffer holds, on every turn of the loop)
Flush_eager(w) ==
    IF w.pos > 0 THEN [writes |-> <<SubSeq(w.buf, 1, w.pos)>>, w |-> [w EXCEPT !.pos = 0]]
    ELSE [writes |-> <<>>, w |-> w]

\* (a flush whose test is off by one and never true)
Flush_never(w) ==
    IF w.pos > Len(w.buf) THEN [writes |-> <<w.buf>>, w |-> [w EXCEPT !.pos = 0]]
    ELSE [writes |-> <<>>, w |-> w]

\* if pos == buf.len() { self.write(&buf[..]); pos = 0; }
\* the slices written and the locals afterwards
Flush(w) ==
    IF w.pos = Len(w.buf) THEN [writes |-> <<w.buf>>, w |-> [w EXCEPT !.pos = 0]]
    ELSE [writes |-> <<>>, w |-> w]

\* (an Ok(0) arm that records the result and reads on)
ArmEof_continuing(w) == [w EXCEPT !.ret = Ok(w.len)]

\* the arms of match r.read(&mut buf[pos..])
\* Ok(0) => { ret = Ok(len); break; }
ArmEof(w) == [w EXCEPT !.ret = Ok(w.len), !.brk = TRUE]

\* Ok(n) => { len += n; pos += n; }, the reader having filled buf[pos..pos + n]
ArmOk(w, bytes) ==
    [w EXCEPT !.buf = [i \in 1..Len(w.buf) |->
                          IF i > w.pos /\ i <= w.pos + Len(bytes) THEN bytes[i - w.pos]
                          ELSE w.buf[i]],
              !.len = @ + Len(bytes),
              !.pos = @ + Len(bytes)]

\* (an Interrupted arm that starts the buffer over)
ArmInterrupted_restarting(w) == [w EXCEPT !.pos = 0]

\* Err(ref e) if e.kind() == io::ErrorKind::Interrupted => {}
ArmInterrupted(w) == w

\* (an error arm that records the error and reads on)
ArmErr_continuing(w, e) == [w EXCEPT !.ret = Err(e)]

\* Err(e) => { ret = Err(e); break; }
ArmErr(w, e) == [w EXCEPT !.ret = Err(e), !.brk = TRUE]

\* (a tail that is skipped when the loop ended with an error)
AfterLoop_unless_error(w) ==
    IF w.pos > 0 /\ w.ret.ok THEN <<SubSeq(w.buf, 1, w.pos)>> ELSE <<>>

\* (a tail that forgets the partial chunk)
AfterLoop_dropping(w) == <<>>

\* after the loop: if pos > 0 { self.write(&buf[..pos]) }
AfterLoop(w) == IF w.pos > 0 THEN <<SubSeq(w.buf, 1, w.pos)>> ELSE <<>>

RECURSIVE WriteSlices(_, _)
WriteSlices(hh, slices) ==
    IF slices = <<>> THEN hh ELSE WriteSlices(write(hh, Head(slices)), Tail(slices))

LogSlices(slices) == [i \in 1..Len(slices) |-> <<"write", slices[i]>>]

\* the space the next read() is given: buf[pos..] after the flush
Space(w) == Len(w.buf) - Flush(w).w.pos

\* One turn of the loop whose read() took the arm leading from the flushed
\* locals to w2, and the code after the loop when that arm broke out.
Turn(w2) ==
    LET slices == Flush(ws).writes \o (IF w2.brk THEN AfterLoop(w2) ELSE <<>>)
    IN  /\ h' = WriteSlices(h, slices)
        /\ log' = log \o LogSlices(slices)
        /\ ws' = [w2 EXCEPT !.pc = IF w2.brk THEN "done" ELSE "loop",
                            !.reads = @ + 1,
                            !.readpos = Flush(ws).w.pos]
        /\ UNCHANGED <<origin, ovars, rvars, nvars>>

\* hasher.write_stream(&mut reader) is called; the reader will produce data
StartStream(data) ==
    /\ h # NoHasher
    /\ h.type \in StreamHashers
    /\ ws.pc = "idle"
    /\ ws' = StreamLocals(h)
    /\ rd' = [data |-> data, produced |-> <<>>, intr |-> 0, trace |-> <<>>,
              before |-> Len(log)]
    /\ UNCHANGED <<hvars, ovars, rvars, nvars>>

\* read() returns Ok(n), n > 0: a short or a full read
ReadOk(n) ==
    /\ ws.pc = "loop"
    /\ n \in 1..Min(Space(ws), Len(rd.data))
    /\ Turn(ArmOk(Flush(ws).w, SubSeq(rd.data, 1, n)))
    /\ rd' = [rd EXCEPT !.data = SubSeq(@, n + 1, Len(@)),
                        !.produced = @ \o SubSeq(rd.data, 1, n),
                        !.trace = Append(@, <<"ok", n, Flush(ws).w.pos>>)]

\* read() returns Ok(0): end of data, or no space in the slice it was given
ReadEof ==
    /\ ws.pc = "loop"
    /\ rd.data = <<>> \/ Space(ws) = 0
    /\ Turn(ArmEof(Flush(ws).w))
    /\ rd' = [rd EXCEPT !.trace = Append(@, <<"eof", 0, Flush(ws).w.pos>>)]

\* read() returns Err(Interrupted)
ReadInterrupted ==
    /\ ws.pc = "loop"
    /\ rd.intr < MaxIntr
    /\ Turn(ArmInterrupted(Flush(ws).w))
    /\ rd' = [rd EXCEPT !.intr = @ + 1,
                        !.trace = Append(@, <<"intr", 0, Flush(ws).w.pos>>)]

\* read() returns another error
ReadError(e) ==
    /\ ws.pc = "loop"
    /\ Turn(ArmErr(Flush(ws).w, e))
    /\ rd' = [rd EXCEPT !.trace = Append(@, <<"err", e, Flush(ws).w.pos>>)]

WInit == ws = Idle /\ rd = NoReader

\* the stream hashers the streaming specification constructs
StreamModelled == {"XXHasher64", "SpookyHasher128"}

\* the streams the readers hold: every length up to MaxStream, the bytes
\* counting up from any first byte (write_stream never looks at a byte)
Streams ==
    {[i \in 1..n |-> (k + i - 1) % (MaxByte + 1)] : n \in 0..MaxStream, k \in Byte}

WNext ==
    \/ \E H \in StreamModelled : New(H)
    \/ \E bytes \in SeqsUpTo(Byte, 1) : log = <<>> /\ Write(bytes)
    \/ \E data \in Streams : StartStream(data)
    \/ \E n \in 1..BufLen : ReadOk(n)
    \/ ReadEof
    \/ ReadInterrupted
    \/ \E e \in ErrKinds : ReadError(e)

\* write_stream run from the locals w and the hasher hh on a reader whose
\* read() calls return the results in trace, taking their bytes from data: the
\* hasher and the result when the loop is left (or the trace is used up)
RECURSIVE RunStream(_, _, _, _)
RunStream(w, hh, data, trace) ==
    IF trace = <<>> THEN [h |-> hh, ret |-> w.ret]
    ELSE LET f == Flush(w)
             t == Head(trace)
             w2 == CASE t[1] = "ok" -> ArmOk(f.w, SubSeq(data, 1, t[2]))
                     [] t[1] = "eof" -> ArmEof(f.w)
                     [] t[1] = "intr" -> ArmInterrupted(f.w)
                     [] OTHER -> ArmErr(f.w, t[2])
             slices == f.writes \o (IF w2.brk THEN AfterLoop(w2) ELSE <<>>)
             h2 == WriteSlices(hh, slices)
             rest == IF t[1] = "ok" THEN SubSeq(data, t[2] + 1, Len(data)) ELSE data
         IN  IF w2.brk THEN [h |-> h2, ret |-> w2.ret]
             ELSE RunStream(w2, h2, rest, Tail(trace))

\* the read() results of a trace that are not Interrupted
NotInterrupted(trace) == SelectSeq(trace, LAMBDA t : t[1] # "intr")

\* ---------------------------------------------------------------------- C2
\* C2: when write_stream reaches end-of-data without a non-Interrupted error
\* it returns Ok(n), n the number of bytes the reader produced, the reader has
\* produced all its bytes, and the hasher is in the state one write() of those
\* n bytes would have put it in after what was written before the call.
C2_StreamEqualsOneWrite ==
    (ws.pc = "done" /\ ws.ret.ok) =>
        /\ ws.ret = Ok(Len(rd.produced))
        /\ rd.data = <<>>
        /\ h = write(ws.h0, rd.produced)

\* a stream longer than two buffers, read in short reads, after an earlier write
C2_Witness ==
    /\ ws.pc = "done" /\ ws.ret.ok
    /\ Len(rd.produced) > 2 * BufLen
    /\ ws.reads > Len(rd.produced) \div BufLen + 2
    /\ ws.pos > 0
    /\ Written(log) # rd.produced

\* ---------------------------------------------------------------------- C9
\* C9: a read() that returns Interrupted leaves the buffer position, the byte
\* count, the buffer and the hasher as they were when the read was issued and
\* the loop goes on; write_stream never returns Interrupted; and when it
\* returns, its result and the hasher equal those of the run on the same
\* read() results with the Interrupted ones removed.
C9_Retry ==
    rd'.intr # rd.intr =>
        /\ ws'.pos = Flush(ws).w.pos
        /\ ws'.len = ws.len
        /\ ws'.buf = ws.buf
        /\ h' = WriteSlices(h, Flush(ws).writes)
        /\ ws'.pc = "loop" /\ ws'.ret = NoRet

C9_SameAsUninterrupted ==
    ws.pc = "done" =>
        LET run == RunStream(StreamLocals(ws.h0), ws.h0, rd.produced,
                             NotInterrupted(rd.trace))
        IN  /\ ws.ret = run.ret
            /\ h = run.h
            /\ ws.ret # Err("Interrupted")

C9_InterruptedIsRetried == [][C9_Retry]_vars /\ []C9_SameAsUninterrupted

\* a run that was interrupted in the middle of a buffer and went on to the end
C9_Witness ==
    /\ ws.pc = "done" /\ ws.ret.ok
    /\ Len(rd.produced) > BufLen
    /\ \E i \in 1..Len(rd.trace) : rd.trace[i][1] = "intr" /\ rd.trace[i][3] > 0

\* --------------------------------------------------------------------- C10
\* C10: a read() that returns an error other than Interrupted ends the call:
\* write_stream returns that error, it is the only such error the reader
\* returned, and no read() is issued afterwards.
C10_ErrorEnds ==
    \A i \in 1..Len(rd.trace) :
        rd.trace[i][1] = "err" =>
            /\ i = Len(rd.trace)
            /\ ws.pc = "done"
            /\ ws.ret = Err(rd.trace[i][2])

C10_NoReadAfterError ==
    (Len(rd.trace) > 0 /\ rd.trace[Len(rd.trace)][1] = "err") =>
        ws'.reads = ws.reads /\ rd'.trace = rd.trace

C10_FirstErrorIsReturned == []C10_ErrorEnds /\ [][C10_NoReadAfterError]_vars

\* an error after some bytes were read, with bytes still to come
C10_Witness ==
    /\ ws.pc = "done" /\ ws.ret = Err("Other")
    /\ ws.reads > 2
    /\ ws.pos > 0
    /\ rd.produced # <<>> /\ rd.data # <<>>

\* --------------------------------------------------------------------- C21
\* C21: when write_stream returns an error the hasher has absorbed exactly
\* the bytes the reads returned before the failing read, in order: those
\* forwarded earlier and those still in the partially filled buffer, none
\* dropped and none forwarded twice.
C21_ErrorKeepsBytesRead ==
    (ws.pc = "done" /\ ~ws.ret.ok) =>
        /\ h = write(ws.h0, rd.produced)
        /\ Written(SubSeq(log, rd.before + 1, Len(log))) = rd.produced

\* an error with one buffer forwarded earlier and a partial one pending
C21_Witness ==
    /\ ws.pc = "done" /\ ws.ret = Err("WouldBlock")
    /\ Len(rd.produced) > BufLen
    /\ ws.pos > 0 /\ ws.pos < BufLen
    /\ rd.data # <<>>

\* --------------------------------------------------------------------- C22
\* the write() calls write_stream has issued so far
StreamWrites == SubSeq(log, rd.before + 1, Len(log))

\* C22: every write() write_stream issues carries between 1 and 4096 (the
\* buffer's length) bytes, every one but possibly the last carries exactly
\* the buffer's length, and a partial chunk is forwarded at most once,
\* after reading has stopped.
C22_ChunksAreFull ==
    ws.pc # "idle" =>
        \A i \in 1..Len(StreamWrites) :
            /\ StreamWrites[i][1] = "write"
            /\ Len(StreamWrites[i][2]) \in 1..BufLen
            /\ i < Len(StreamWrites) => Len(StreamWrites[i][2]) = BufLen
            /\ Len(StreamWrites[i][2]) < BufLen => ws.pc = "done"

\* two full buffers and a partial chunk were forwarded, after short reads
C22_Witness ==
    /\ ws.pc = "done"
    /\ Len(StreamWrites) = 3
    /\ Len(StreamWrites[3][2]) < BufLen
    /\ ws.reads > 4

\* --------------------------------------------------------------------- C23
\* C23: at every read() write_stream issues the buffer position is at least
\* 0 and less than the buffer's length, so the slice handed to the reader
\* is never empty, and a read that returned Ok(0) came from a reader with
\* no data left, never from a full buffer.
C23_ReadSliceNotEmpty ==
    /\ \A i \in 1..Len(rd.trace) :
          /\ rd.trace[i][3] >= 0 /\ rd.trace[i][3] < BufLen
          /\ rd.trace[i][1] = "eof" => rd.data = <<>>
    /\ ws.pc = "loop" => Space(ws) > 0

\* a read issued at position 0 right after a full buffer was flushed, and
\* a later end of data
C23_Witness ==
    /\ ws.pc = "done" /\ ws.ret.ok
    /\ \E i \in 2..Len(rd.trace) :
          /\ rd.trace[i][3] = 0
          /\ rd.trace[i - 1][1] = "ok"
          /\ rd.trace[i - 1][3] + rd.trace[i - 1][2] = BufLen
    /\ rd.trace[Len(rd.trace)][1] = "eof"

\* --------------------------------------------------------------------- C24
\* one read() of the running write_stream call returns
ReadReturns ==
    \/ \E n \in 1..BufLen : ReadOk(n)
    \/ ReadEof
    \/ ReadInterrupted
    \/ \E e \in ErrKinds : ReadError(e)

C24_EndsAtOnce ==
    \A i \in 1..Len(rd.trace) :
        rd.trace[i][1] \in {"eof", "err"} => (i = Len(rd.trace) /\ ws.pc = "done")

\* C24: write_stream ends as soon as a read() returns Ok(0) or an error
\* other than Interrupted, and every call, on a reader that does not
\* return Interrupted forever, eventually returns.
C24_StreamTerminates == []C24_EndsAtOnce /\ ((ws.pc = "loop") ~> (ws.pc = "done"))

\* a call that returned after an Interrupted read and more than a buffer
C24_Witness ==
    /\ ws.pc = "done" /\ ws.ret.ok
    /\ rd.intr > 0
    /\ Len(rd.produced) > BufLen
    /\ ws.reads = Len(rd.trace)

\* ================================================== Seed and RandomState
\* Xoroshiro128Rng on scaled words: the state is two u64.
RECURSIVE Xor(_, _)
Xor(a, b) ==
    IF a = 0 THEN b
    ELSE IF b = 0 THEN a
    ELSE (((a % 2) + (b % 2)) % 2) + 2 * Xor(a \div 2, b \div 2)

B64 == 2 * B32
rotl(x, k) == ((x * Pow2(k)) % U64) + (x \div Pow2(B64 - k))

\* Rng::next_u64: the value drawn and the state afterwards
next_u64(st) ==
    LET s0 == st[1]
        s1 == Xor(st[1], st[2])
    IN  [ret |-> (st[1] + st[2]) % U64,
         st |-> <<Xor(Xor(rotl(s0, B64 - 1), s1), (s1 * 2) % U64), rotl(s1, B32)>>]

\* n values drawn in a row, and the state afterwards
RECURSIVE Draw(_, _)
Draw(st, n) ==
    IF n = 0 THEN [vals |-> <<>>, st |-> st]
    ELSE LET d == next_u64(st)
             rest == Draw(d.st, n - 1)
         IN  [vals |-> <<d.ret>> \o rest.vals, st |-> rest.st]

\* what the OS entropy source may hand to Seed::new()
Entropy == {<<1, 2>>, <<1, 22>>}

Threads == 1..NThreads
Uninit == [init |-> FALSE, st |-> <<0, 0>>, n |-> 0]

\* Seed::new(): Seed(Xoroshiro128Rng::new()), from OS entropy
Seed_new(e) == [init |-> TRUE, st |-> e, n |-> 0]

\* (a gen() that draws from a copy of the generator and leaves SEEDS as it was)
Seed_gen_on_a_copy(tl, e) ==
    LET cell == IF tl.init THEN tl ELSE Seed_new(e)
        d == Draw(cell.st, 2)
    IN  [seed |-> d.vals, tl |-> [cell EXCEPT !.n = @ + 1]]

\* (a SEEDS cell that every call builds anew from the OS entropy)
Seed_gen_reinitialising(tl, e) ==
    LET cell == Seed_new(e)
        d == Draw(cell.st, 2)
    IN  [seed |-> d.vals, tl |-> [cell EXCEPT !.st = d.st, !.n = @ + 1]]

\* Seed::gen() on a thread whose SEEDS cell is tl (e: the entropy its lazy
\* initialisation gets): Seed(from_seed(seeds.borrow_mut().0.gen::<[u64; 2]>()))
Seed_gen(tl, e) ==
    LET cell == IF tl.init THEN tl ELSE Seed_new(e)
        d == Draw(cell.st, 2)
    IN  [seed |-> d.vals, tl |-> [cell EXCEPT !.st = d.st, !.n = @ + 1]]

\* (a u128 built with the two draws in the wrong order)
From_u128_swapped(seed) == LET d == Draw(seed, 2) IN from_parts(d.vals[2], d.vals[1])

\* impl_from_seed!: let mut rng = seed.0; rng.gen()
From_u32(seed) == next_u64(seed).ret % U32
From_u64(seed) == next_u64(seed).ret
From_u128(seed) == LET d == Draw(seed, 2) IN from_parts(d.vals[1], d.vals[2])
From_u64x2(seed) == Draw(seed, 2).vals
From_u64x4(seed) == Draw(seed, 4).vals

\* the shapes a Seed converts to
Shapes == {"u32", "u64", "u128", "(u64, u64)", "(u64, u64, u64, u64)"}

\* (a conversion that borrowed the Seed mutably and left its generator advanced)
Seed_into_advancing(seed, shape) ==
    [self |-> next_u64(seed).st,
     ret |-> CASE shape = "u32" -> <<From_u32(seed)>>
               [] shape = "u64" -> <<From_u64(seed)>>
               [] shape = "u128" -> <<From_u128(seed)>>
               [] shape = "(u64, u64)" -> From_u64x2(seed)
               [] OTHER -> From_u64x4(seed)]

\* <$target as From<Seed>>::from(seed) on the caller's Seed value: Seed is
\* Copy and is taken by value, so the caller's value (self) stays as it was
Seed_into(seed, shape) ==
    [self |-> seed,
     ret |-> CASE shape = "u32" -> <<From_u32(seed)>>
               [] shape = "u64" -> <<From_u64(seed)>>
               [] shape = "u128" -> <<From_u128(seed)>>
               [] shape = "(u64, u64)" -> From_u64x2(seed)
               [] OTHER -> From_u64x4(seed)]

\* self.seed.into() for FastHasher::Seed of the hasher type H
SeedInto(H, seed) ==
    CASE H \in {"CityHasher32", "Murmur3Hasher_x64_128"} -> From_u32(seed)
      [] H = "CityHasher128" -> From_u128(seed)
      [] H = "SpookyHasher128" -> From_u64x2(seed)
      [] H = "sea::Hasher64" -> From_u64x4(seed)
      [] OTHER -> From_u64(seed)

\* a RandomState<T>: its seed (and the thread that made it, as the k-th Seed
\* that thread obtained)
NoRS == [T |-> "none", seed |-> <<0, 0>>, thread |-> 0, k |-> 0]
RIds == 1..MaxRS

\* the markers the model parameterises RandomState with
RSMarkers == {"CityHash32", "SpookyHash64"}

\* (a build_hasher that draws a new seed for every hasher)
RandomState_build_hasher_reseeding(rs, tl) ==
    LET g == Seed_gen(tl, <<1, 2>>)
    IN  [self |-> rs, tl |-> g.tl,
         ret |-> with_seed(HasherOf(rs.T), SeedInto(HasherOf(rs.T), g.seed))]

\* BuildHasher::build_hasher(&self) of RandomState<T>, called on a thread
\* whose SEEDS cell is tl: T::FastHasher::with_seed(self.seed.into())
RandomState_build_hasher(rs, tl) ==
    [self |-> rs, tl |-> tl,
     ret |-> with_seed(HasherOf(rs.T), SeedInto(HasherOf(rs.T), rs.seed))]

RInit ==
    /\ tls = [t \in Threads |-> Uninit]
    /\ rstates = [r \in RIds |-> NoRS]
    /\ built = [r \in RIds |-> <<>>]
    /\ seeds = [t \in Threads |-> <<>>]
    /\ nops = 0

\* no Seed has been converted so far
NoneConverted == \A t \in Threads : \A k \in 1..Len(seeds[t]) : seeds[t][k].convs = 0

\* the Seed a thread gets, as the thread keeps it: the value, the generator
\* state it was drawn from, the value as returned, how many conversions were
\* made of it and what they returned: <<shape, value>>
Obtained(seed, from) ==
    [seed |-> seed, orig |-> seed, from |-> from, convs |-> 0, outs |-> {}]

\* the state of thread t's generator when a call draws from it
GenState(t, e) == IF tls[t].init THEN tls[t].st ELSE e

\* (a SEEDS cell that is one static shared by all threads)
SeedGen_shared(t, e) ==
    /\ nops < MaxOps
    /\ nops' = nops + 1
    /\ LET g == Seed_gen(tls[1], e)
       IN  /\ tls' = [tls EXCEPT ![1] = g.tl]
           /\ seeds' = [seeds EXCEPT ![t] = Append(@, Obtained(g.seed, GenState(1, e)))]
    /\ UNCHANGED <<rstates, built, hvars, ovars, wvars, nvars>>

\* Seed::gen() called on thread t
SeedGen(t, e) ==
    /\ nops < MaxOps
    /\ nops' = nops + 1
    /\ LET g == Seed_gen(tls[t], e)
       IN  /\ tls' = [tls EXCEPT ![t] = g.tl]
           /\ seeds' = [seeds EXCEPT ![t] = Append(@, Obtained(g.seed, GenState(t, e)))]
    /\ UNCHANGED <<rstates, built, hvars, ovars, wvars, nvars>>

\* s.into() for one of the shapes, s being the Seed thread t obtained last
\* (explored in the runs that make no RandomState)
SeedConvert(t, shape) ==
    /\ nops < MaxOps
    /\ nops' = nops + 1
    /\ rstates[1] = NoRS
    /\ seeds[t] # <<>>
    /\ LET k == Len(seeds[t])
           c == Seed_into(seeds[t][k].seed, shape)
       IN  seeds' = [seeds EXCEPT ![t][k].seed = c.self,
                                  ![t][k].convs = @ + 1,
                                  ![t][k].outs = @ \cup {<<shape, c.ret>>}]
    /\ UNCHANGED <<tls, rstates, built, hvars, ovars, wvars, nvars>>

\* the shape of FastHasher::Seed of the hasher type H
ShapeOf(H) ==
    CASE H \in {"CityHasher32", "Murmur3Hasher_x64_128"} -> "u32"
      [] H = "CityHasher128" -> "u128"
      [] H = "SpookyHasher128" -> "(u64, u64)"
      [] H = "sea::Hasher64" -> "(u64, u64, u64, u64)"
      [] OTHER -> "u64"

\* the hasher type the model calls new_with_random_seed() on
RandHashers == {"XXHasher64"}

\* H::new_with_random_seed() called on thread t: Self::with_seed(Seed::gen().into());
\* the thread's record keeps the Seed drawn and the value handed to with_seed,
\* which determines the hasher returned
\* (explored in the runs that make no RandomState)
NewWithRandomSeed(t, H, e) ==
    /\ nops < MaxOps
    /\ nops' = nops + 1
    /\ rstates[1] = NoRS
    /\ LET g == Seed_gen(tls[t], e)
           c == Seed_into(g.seed, ShapeOf(H))
       IN  /\ tls' = [tls EXCEPT ![t] = g.tl]
           /\ seeds' = [seeds EXCEPT ![t] =
                  Append(@, [Obtained(g.seed, GenState(t, e)) EXCEPT
                                !.seed = c.self, !.convs = 1,
                                !.outs = {<<ShapeOf(H), c.ret>>}])]
    /\ UNCHANGED <<rstates, built, hvars, ovars, wvars, nvars>>

\* (a new() that stores Seed::new(), the raw entropy, instead of Seed::gen())
RandomStateNew_raw(t, r, T, e) ==
    /\ nops < MaxOps
    /\ nops' = nops + 1
    /\ rstates[r] = NoRS
    /\ \A q \in 1..(r - 1) : rstates[q] # NoRS
    /\ NoneConverted
    /\ LET g == Seed_gen(tls[t], e)
       IN  /\ rstates' = [rstates EXCEPT ![r] = [T |-> T, seed |-> Seed_new(e).st,
                                                 thread |-> t, k |-> Len(seeds[t]) + 1]]
           /\ tls' = [tls EXCEPT ![t] = g.tl]
           /\ seeds' = [seeds EXCEPT ![t] = Append(@, Obtained(g.seed, GenState(t, e)))]
    /\ UNCHANGED <<built, hvars, ovars, wvars, nvars>>

\* RandomState::<T>::new() (or Default::default()) called on thread t
RandomStateNew(t, r, T, e) ==
    /\ nops < MaxOps
    /\ nops' = nops + 1
    /\ rstates[r] = NoRS
    /\ \A q \in 1..(r - 1) : rstates[q] # NoRS
    /\ NoneConverted
    /\ LET g == Seed_gen(tls[t], e)
       IN  /\ rstates' = [rstates EXCEPT ![r] = [T |-> T, seed |-> g.seed,
                                                 thread |-> t, k |-> Len(seeds[t]) + 1]]
           /\ tls' = [tls EXCEPT ![t] = g.tl]
           /\ seeds' = [seeds EXCEPT ![t] = Append(@, Obtained(g.seed, GenState(t, e)))]
    /\ UNCHANGED <<built, hvars, ovars, wvars, nvars>>

\* rstates[r].build_hasher() called on thread t; built[r] records the hasher
\* returned and whether the thread that made rstates[r] has generated seeds
\* since
RSBuildHasher(t, r) ==
    /\ rstates[r] # NoRS
    /\ nops < MaxOps
    /\ nops' = nops + 1
    /\ LET b == RandomState_build_hasher(rstates[r], tls[t])
       IN  /\ built' = [built EXCEPT ![r] = Append(@, [h |-> b.ret, later |-> tls[rstates[r].thread].n > rstates[r].k])]
           /\ rstates' = [rstates EXCEPT ![r] = b.self]
           /\ tls' = [tls EXCEPT ![t] = b.tl]
    /\ UNCHANGED <<seeds, hvars, ovars, wvars, nvars>>

RNext ==
    \/ \E t \in Threads : \E e \in Entropy : SeedGen(t, e)
    \/ \E t \in Threads : \E r \in RIds : \E T \in RSMarkers : \E e \in Entropy :
          RandomStateNew(t, r, T, e)
    \/ \E t \in Threads : \E r \in RIds : RSBuildHasher(t, r)
    \/ \E t \in Threads : \E shape \in Shapes : SeedConvert(t, shape)
    \/ \E t \in Threads : \E H \in RandHashers : \E e \in Entropy :
          NewWithRandomSeed(t, H, e)

\* ---------------------------------------------------------------------- C3
\* C3: all hashers one RandomState has built are seeded alike, with the seed
\* the RandomState stores, so any two return the same finish() for the same
\* written bytes, whatever Seed::gen(), RandomState::new() and build_hasher()
\* calls came in between; and a build_hasher() call changes neither the
\* stored seed nor the thread-local generator.
C3_SameSeed ==
    \A r \in RIds : \A j \in 1..Len(built[r]) :
        /\ built[r][j].h = with_seed(HasherOf(rstates[r].T),
                                     SeedInto(HasherOf(rstates[r].T), rstates[r].seed))
        /\ \A i \in 1..(j - 1) : \A bytes \in Chunks :
              finish(write(built[r][i].h, bytes)).ret = finish(write(built[r][j].h, bytes)).ret

C3_BuildChangesNothing == built' # built => rstates' = rstates /\ tls' = tls

C3_BuildHasherSameSeed == []C3_SameSeed /\ [][C3_BuildChangesNothing]_vars

\* two hashers of one RandomState, its thread having generated a seed
\* between the two build_hasher() calls, and another RandomState with
\* another seed existing
C3_Witness ==
    \E r, q \in RIds :
        /\ r # q /\ rstates[q] # NoRS /\ rstates[q].seed # rstates[r].seed
        /\ Len(built[r]) = 2
        /\ ~built[r][1].later /\ built[r][2].later

\* --------------------------------------------------------------------- C12
\* every Seed a thread obtained is the two values drawn from the generator
\* state the call found, and the call left the generator two draws further
C12_Chain ==
    \A t \in Threads : \A k \in 1..Len(seeds[t]) :
        LET d == Draw(seeds[t][k].from, 2)
        IN  /\ seeds[t][k].orig = d.vals
            /\ IF k < Len(seeds[t]) THEN seeds[t][k + 1].from = d.st
                                    ELSE tls[t].init /\ tls[t].st = d.st

AfterTwo(st) == Draw(st, 2).st

\* r and q were made by successive new() calls on one thread, r first
Successive(r, q) ==
    /\ rstates[r] # NoRS /\ rstates[q] # NoRS
    /\ rstates[r].thread = rstates[q].thread
    /\ rstates[q].k = rstates[r].k + 1

C14_SeedKept ==
    \A t \in Threads : \A k \in 1..Len(seeds[t]) :
        /\ seeds[t][k].seed = seeds[t][k].orig
        /\ \A a, b \in seeds[t][k].outs : a[1] = b[1] => a[2] = b[2]

C14_GeneratorKept ==
    (\E t \in Threads : \E k \in 1..Len(seeds[t]) :
        /\ Len(seeds'[t]) = Len(seeds[t])
        /\ seeds'[t][k].convs # seeds[t][k].convs) => tls' = tls

\* C14: converting a Seed to a seed shape does not change the Seed, so
\* converting one Seed value to one shape again and again gives the same
\* result, and a conversion does not advance the thread's generator.
C14_ConversionChangesNothing == []C14_SeedKept /\ [][C14_GeneratorKept]_vars

\* a Seed converted twice to the same shape and once to another
C14_Witness ==
    \E t \in Threads : \E k \in 1..Len(seeds[t]) :
        /\ seeds[t][k].convs = 3
        /\ Cardinality(seeds[t][k].outs) = 2

\* --------------------------------------------------------------------- C15
\* the value a Seed converted to, for the shapes that are one integer
Converted(t, k, shape) == {a[2][1] : a \in {b \in seeds[t][k].outs : b[1] = shape}}

RECURSIVE NthSeed(_, _)
NthSeed(st, k) == IF k = 1 THEN Draw(st, 2).vals ELSE NthSeed(AfterTwo(st), k - 1)

C16_OwnStateOnly ==
    \A t \in Threads : \A k \in 1..Len(seeds[t]) :
        /\ seeds[t][1].from \in Entropy
        /\ seeds[t][k].orig = NthSeed(seeds[t][1].from, k)

C16_OthersUntouched ==
    \A t, u \in Threads :
        (u # t /\ Len(seeds'[t]) > Len(seeds[t])) => tls'[u] = tls[u]

\* C16: the generators are per thread: a Seed::gen() or RandomState::new()
\* call on one thread leaves every other thread's generator as it was, and
\* the Seeds a thread obtains are determined by its own generator's initial
\* state and the number of calls it has made, under every interleaving.
C16_GeneratorsArePerThread == []C16_OwnStateOnly /\ [][C16_OthersUntouched]_vars

\* two threads with differently initialised generators, both having obtained
\* Seeds, one of them through RandomState::new()
C16_Witness ==
    /\ Len(seeds[1]) >= 2 /\ Len(seeds[2]) >= 1
    /\ seeds[1][1].from # seeds[2][1].from
    /\ \E r \in RIds : rstates[r] # NoRS /\ rstates[r].thread = 2

\* --------------------------------------------------------------------- C25
\* a thread's generator is uninitialised exactly as long as the thread has
\* obtained no Seed, and an initialised one has drawn once per Seed obtained
\* since the one initialisation, which took its state from the OS entropy
C25_InitialisedByFirstGen ==
    \A t \in Threads :
        /\ ~tls[t].init <=> seeds[t] = <<>>
        /\ ~tls[t].init => tls[t] = Uninit
        /\ tls[t].init =>
              /\ seeds[t][1].from \in Entropy
              /\ tls[t].n = Len(seeds[t])
              /\ tls[t].st = AfterTwo(seeds[t][Len(seeds[t])].from)

\* a step initialises a generator only in the call that gives the thread its
\* first Seed, and leaves an initialised generator as it is or advanced by
\* that call's draws
C25_NeverReinitialised ==
    \A t \in Threads :
        /\ (~tls[t].init /\ tls'[t].init) =>
              /\ Len(seeds'[t]) = 1
              /\ seeds'[t][1].from \in Entropy
              /\ tls'[t] = [Seed_new(seeds'[t][1].from) EXCEPT
                                !.st = AfterTwo(@), !.n = 1]
        /\ tls[t].init =>
              /\ tls'[t].init
              /\ tls'[t] # tls[t] =>
                    /\ tls'[t] = [tls[t] EXCEPT !.st = AfterTwo(@), !.n = @ + 1]
                    /\ Len(seeds'[t]) = Len(seeds[t]) + 1

\* C25: a thread's seed generator is uninitialised until the thread's first
\* Seed::gen(), made directly or through RandomState::new() or
\* new_with_random_seed(); that call initialises it from the OS entropy, once,
\* and no later call initialises it again or tears it down.
C25_GeneratorInitialisedOnce ==
    []C25_InitialisedByFirstGen /\ [][C25_NeverReinitialised]_vars

\* a thread that obtained its first Seed through new_with_random_seed() and
\* two more afterwards, while the other thread's generator is uninitialised
C25_Witness ==
    /\ Len(seeds[1]) = 3
    /\ seeds[1][1].convs = 1
    /\ tls[1].init /\ tls[1].n = 3
    /\ ~tls[2].init

\* ================================================ native contexts on the heap
\* The hashers that own a heap-allocated native context: the xx, xxh3 and
\* spooky hashers hold the pointer their native create call returned, the prv
\* hashers two boxes (context and hash buffer, one cell here).
CtxHashers == {"XXHasher32", "XXHasher64", "xxh3::Hasher64", "xxh3::Hasher128",
               "SpookyHasher128", "prv::Hasher64", "prv::Hasher128"}
\* prv::Hasher allocates with Box::new, which aborts when allocation fails
BoxHashers == {"prv::Hasher64", "prv::Hasher128"}
\* the context hashers that implement Clone
Cloneable == {"xxh3::Hasher64", "xxh3::Hasher128", "prv::Hasher64", "prv::Hasher128"}

\* the seeds the context hashers are constructed with
CtxSeeds(H) ==
    CASE H = "SpookyHasher128" -> {<<2, 5>>}
      [] H \in BoxHashers -> {<<1, 2, 3, 4>>}
      [] OTHER -> {6}

\* the slices written to them
CtxChunks == {<<0>>, <<1>>}

\* A hasher in objs: its type, the pointer it holds, whether it was dropped,
\* and own: the context a hasher with a context of its own would hold after
\* the calls made on this one (at a clone: the original's).
\* A context on the heap: live or released, its value, how often it was
\* released and whether a native call got it after its release.
Cell(val) == [st |-> "live", val |-> val, frees |-> 0, stale |-> FALSE]

\* pointer p is null or points to a released context
Dangling(p) == IF p = 0 THEN TRUE ELSE heap[p].st = "released"

\* A native reset/update/digest/copy call on pointer p that leaves the value
\* val in the context: the heap and the process afterwards.  On a null or
\* released context the call is undefined: the process crashes or goes on.
NativeCall(p, val, crash) ==
    [heap |-> IF p = 0 THEN heap
              ELSE [heap EXCEPT ![p].val = val,
                                ![p].stale = @ \/ heap[p].st = "released"],
     prog |-> [prog EXCEPT !.st = IF crash THEN "crashed" ELSE @,
                           !.nullpassed = @ \/ p = 0]]

\* The native free call (Box::from_raw + drop for prv) on pointer p.  free of
\* null does nothing; free of a released context is undefined.
NativeFree(p, crash) ==
    [heap |-> IF p = 0 THEN heap
              ELSE [heap EXCEPT ![p].st = "released", ![p].frees = @ + 1],
     prog |-> [prog EXCEPT !.st = IF crash THEN "crashed" ELSE @,
                           !.nullpassed = @ \/ p = 0]]

NInit ==
    /\ objs = <<>>
    /\ heap = <<>>
    /\ prog = [st |-> "running", nullpassed |-> FALSE, writes |-> 0]

\* H::with_seed(seed): the native create call returns a context (got) or
\* null; xx, xxh3 and spooky pass what they get to the native reset and wrap
\* it, prv aborts in Box::new.
CtxWithSeed(H, seed, got, crash) ==
    /\ prog.st = "running"
    /\ Len(objs) < MaxObjs
    /\ (IF objs = <<>> THEN TRUE ELSE objs[1].type = H)
    /\ crash => (~got /\ H \notin BoxHashers)
    /\ IF got
       THEN /\ heap' = Append(heap, Cell(NativeInit(seed)))
            /\ objs' = Append(objs, [type |-> H, ctx |-> Len(heap) + 1, st |-> "live",
                                     own |-> NativeInit(seed)])
            /\ UNCHANGED prog
       ELSE IF H \in BoxHashers
       THEN /\ prog' = [prog EXCEPT !.st = "aborted"]
            /\ UNCHANGED <<objs, heap>>
       ELSE /\ prog' = NativeCall(0, NativeInit(seed), crash).prog
            /\ objs' = IF crash THEN objs
                       ELSE Append(objs, [type |-> H, ctx |-> 0, st |-> "live",
                                          own |-> NativeInit(seed)])
            /\ UNCHANGED heap
    /\ UNCHANGED <<hvars, ovars, wvars, rvars>>

\* H::new(): with_seed of the default seed (xx: with_seed(0))
CtxNew(H, got, crash) == CtxWithSeed(H, HasherDefaultSeed(H), got, crash)

\* objs[i].clone().  prv::Hasher derives Clone: the copy holds the same two
\* pointers.  xxh3: XXH3_createState, then XXH3_copyState(state, self.0).
CtxClone(i, got, crash) ==
    /\ prog.st = "running"
    /\ Len(objs) < MaxObjs
    /\ i <= Len(objs)
    /\ objs[i].st = "live"
    /\ objs[i].type \in Cloneable
    /\ IF objs[i].type \in BoxHashers
       THEN /\ got /\ ~crash
            /\ objs' = Append(objs, objs[i])
            /\ UNCHANGED <<heap, prog>>
       ELSE LET src == objs[i].ctx
                val == IF src = 0 THEN NativeInit(0) ELSE heap[src].val
                read == NativeCall(src, val, crash)
                dst == IF got THEN Len(heap) + 1 ELSE 0
            IN  /\ crash => (~got \/ Dangling(src))
                /\ heap' = IF crash THEN heap
                           ELSE IF got THEN Append(read.heap, Cell(val)) ELSE read.heap
                /\ prog' = [read.prog EXCEPT !.nullpassed = @ \/ ~got]
                /\ objs' = IF crash THEN objs
                           ELSE Append(objs, [type |-> objs[i].type, ctx |-> dst, st |-> "live",
                                              own |-> objs[i].own])
    /\ UNCHANGED <<hvars, ovars, wvars, rvars>>

\* objs[i].write(bytes): the native update call on its context
CtxWrite(i, bytes, crash) ==
    /\ prog.st = "running"
    /\ prog.writes < MaxCtxWrites
    /\ i <= Len(objs)
    /\ objs[i].st = "live"
    /\ crash => Dangling(objs[i].ctx)
    /\ LET p == objs[i].ctx
           val == IF p = 0 THEN NativeInit(0) ELSE NativeUpdate(heap[p].val, bytes)
           r == NativeCall(p, val, crash)
       IN  /\ heap' = r.heap
           /\ prog' = [r.prog EXCEPT !.writes = @ + 1]
    /\ objs' = IF crash THEN objs ELSE [objs EXCEPT ![i].own = NativeUpdate(@, bytes)]
    /\ UNCHANGED <<hvars, ovars, wvars, rvars>>

\* objs[i].finish(): the native digest/final call on its context
CtxFinish(i, crash) ==
    /\ prog.st = "running"
    /\ i <= Len(objs)
    /\ objs[i].st = "live"
    /\ crash => Dangling(objs[i].ctx)
    /\ LET p == objs[i].ctx
           r == NativeCall(p, IF p = 0 THEN NativeInit(0) ELSE heap[p].val, crash)
       IN  /\ heap' = r.heap
           /\ prog' = r.prog
    /\ UNCHANGED <<objs, hvars, ovars, wvars, rvars>>

\* objs[i] is dropped: Drop::drop frees its context
CtxDrop(i, crash) ==
    /\ prog.st = "running"
    /\ i <= Len(objs)
    /\ objs[i].st = "live"
    /\ crash => (objs[i].ctx # 0 /\ heap[objs[i].ctx].st = "released")
    /\ LET r == NativeFree(objs[i].ctx, crash)
       IN  /\ heap' = r.heap
           /\ prog' = r.prog
    /\ objs' = [objs EXCEPT ![i].st = "dropped"]
    /\ UNCHANGED <<hvars, ovars, wvars, rvars>>

NNext ==
    \/ \E H \in CtxHashers : \E seed \in CtxSeeds(H) : \E got, crash \in BOOLEAN :
          CtxWithSeed(H, seed, got, crash)
    \/ \E H \in CtxHashers : \E got, crash \in BOOLEAN : CtxNew(H, got, crash)
    \/ \E i \in 1..MaxObjs : \E got, crash \in BOOLEAN : CtxClone(i, got, crash)
    \/ \E i \in 1..MaxObjs : \E bytes \in CtxChunks : \E crash \in BOOLEAN :
          CtxWrite(i, bytes, crash)
    \/ \E i \in 1..MaxObjs : \E crash \in BOOLEAN : CtxFinish(i, crash)
    \/ \E i \in 1..MaxObjs : \E crash \in BOOLEAN : CtxDrop(i, crash)

\* the live hashers that hold context c
Owners(c) == {i \in 1..Len(objs) : objs[i].st = "live" /\ objs[i].ctx = c}

\* --------------------------------------------------------------------- C11
\* C11: every native context is released exactly once, when its owning
\* hasher is dropped, and no native call gets it after its release: a live
\* context has exactly one live owner, a released one has none, was freed
\* once and was never used afterwards (in runs whose create calls all
\* returned a context).
C11_ReleasedExactlyOnce ==
    ~prog.nullpassed => \A c \in 1..Len(heap) :
        /\ heap[c].frees <= 1
        /\ ~heap[c].stale
        /\ Cardinality(Owners(c)) = (IF heap[c].st = "live" THEN 1 ELSE 0)

\* --------------------------------------------------------------------- C18
\* C18: when the native create call returns null the constructor aborts the
\* program: no hasher holds a null context and null is never passed to a
\* native reset/update/digest/free call.
C18_NullContextAborts ==
    /\ ~prog.nullpassed
    /\ \A i \in 1..Len(objs) : objs[i].ctx # 0

\* --------------------------------------------------------------------- C26
\* C26: a clone is an independent hasher: right after the clone both hold
\* the same context value, and from then on the context each of them digests
\* in finish() is the one its own writes built, whatever was written to the
\* other (in runs whose create calls all returned a context).
C26_ClonesAreIndependent ==
    ~prog.nullpassed => \A i \in 1..Len(objs) :
        (objs[i].st = "live" /\ heap[objs[i].ctx].st = "live") =>
            heap[objs[i].ctx].val = objs[i].own

\* ========================================================= specifications
Init == HInit /\ OInit /\ WInit /\ RInit /\ NInit

\* the life of one hasher of any type
Spec == Init /\ [][HNext]_vars
\* one-shot hashing
SpecHash == Init /\ [][ONext]_vars
\* write_stream on a stream hasher
SpecStream == Init /\ [][WNext]_vars
\* write_stream on a reader that returns from every read(), returns
\* Interrupted only finitely often (MaxIntr) and holds finitely many bytes
SpecStreamFair == Init /\ [][WNext]_vars /\ WF_vars(ReadReturns)
\* seeds and RandomState
SpecSeed == Init /\ [][RNext]_vars
\* native-context hashers and their contexts
SpecCtx == Init /\ [][NNext]_vars

====
